---- MODULE Spec2Model ----
(***************************************************************************)
(* A model of the NaviAble travel-assistant backend (dileeppandey/magentic) *)
(*                                                                         *)
(*   utils.py        enforce_role_alternation (the turn normalizer)        *)
(*   agents.py       the keyword-routing supervisor_agent                  *)
(*   magentic_ai.py  the LangGraph routing state machine and its wrapper   *)
(*   app.py          get_city_name, the flight supervisor_agent with its   *)
(*                   result assembler, get_weather and the /chat handler   *)
(*                                                                         *)
(* Text is modelled as a sequence of one-character strings, so that        *)
(* lower(), upper(), strip(), split() and the `in` substring test are      *)
(* computed as Python computes them.                                       *)
(***************************************************************************)
EXTENDS Integers, Sequences, FiniteSets, TLC

VARIABLES
  messages,        \* the transcript handed to the operation under study
  error,           \* the exception that ended the pass, "none" if none did
  fixed,           \* utils.enforce_role_alternation: the list it returns
  norm_pc,         \* "off" | "call" | "done"
  \* magentic_ai.py: one pass of the compiled LangGraph workflow
  node,            \* the graph node about to run, "END", "returned" or "failed"
  st_messages,     \* AgentState["messages"]
  iteration_count, \* AgentState["iteration_count"] (0 while the key is absent)
  next_node,       \* AgentState["next_node"] ("None" while the key is absent)
  resp_messages,   \* the messages LangGraphChatAgent.predict collects
  reply,           \* the content the Flask wrapper returns
  dispatched,      \* history: the capability agents invoked, in order
  policy_kind,     \* history: the kind of the policy's last answer
  \* app.py: get_city_name
  location,        \* its argument
  city,            \* its result
  city_pc,         \* "off" | "call" | "done"
  \* app.py /chat around a supervisor_agent (agents.py's or app.py's)
  variant,         \* the module whose supervisor_agent is bound
  sup_pc,          \* "off" | "call" | "returned" | "raised" | "responded"
  remote_calls,    \* history: the remote calls the supervisor made, in order
  sup_response,    \* what the supervisor returned
  http_status,     \* the status /chat answers with (0: not yet)
  http_body,       \* the text /chat answers with, as lines
  \* app.py: the database, the Flask sessions and the requests of the clients
  db_users,        \* the committed User rows (their ids)
  db_chats,        \* the committed Chat rows
  db_messages,     \* the committed Message rows, in id order
  chat_sessions,   \* the module-level dict chat_sessions
  session,         \* per client: the signed cookie session
  req_pc,          \* per client: "idle", or "awaiting" inside /chat
  pending,         \* per client: rows added to db.session, not committed
  issued_users,    \* how many user ids uuid4 has produced
  issued_chats,    \* how many chat ids uuid4 has produced
  before,          \* history, per client: the store as its /chat request met it
  last_op,         \* history: the last request step and its outcome
  \* services.py: get_or_create_chat
  svc_pc,          \* "off" | "call" | "done"
  svc_message,     \* the user's message
  svc_current,     \* whether the session names a stored chat
  svc_title,       \* history: how the title agent's call ended
  svc_chat,        \* the chat returned, or the record of None
  svc_logged       \* whether the failure was logged

normVars == <<fixed, norm_pc>>

routeVars == <<node, st_messages, iteration_count, next_node, resp_messages,
               reply, dispatched, policy_kind>>

cityVars == <<location, city, city_pc>>

chatVars == <<variant, sup_pc, remote_calls, sup_response, http_status,
              http_body>>

storeVars == <<db_users, db_chats, db_messages, chat_sessions, session, req_pc,
               pending, issued_users, issued_chats, before, last_op>>

titleVars == <<svc_pc, svc_message, svc_current, svc_title, svc_chat, svc_logged>>

vars == <<messages, error, normVars, routeVars, cityVars, chatVars, storeVars,
          titleVars>>

\* the parts of the state an operation under study does not use
NormIdle == fixed = <<>> /\ norm_pc = "off"

RouteIdle ==
  /\ node = "off"
  /\ st_messages = <<>>
  /\ iteration_count = 0
  /\ next_node = "None"
  /\ resp_messages = <<>>
  /\ reply = <<>>
  /\ dispatched = <<>>
  /\ policy_kind = "none"

CityIdle == location = <<>> /\ city = <<>> /\ city_pc = "off"

\* a client's session without keys, and a request record without content
NoSession == [user_id |-> 0, current_chat_id |-> 0]

NoBefore == [user |-> FALSE, chat |-> FALSE, msgs |-> <<>>]

NoOp ==
  [client |-> "none", op |-> "none", outcome |-> "none", status |-> 0,
   chat |-> 0]

StoreIdle ==
  /\ db_users = {}
  /\ db_chats = {}
  /\ db_messages = <<>>
  /\ chat_sessions = <<>>
  /\ session = <<>>
  /\ req_pc = <<>>
  /\ pending = <<>>
  /\ issued_users = 0
  /\ issued_chats = 0
  /\ before = <<>>
  /\ last_op = NoOp

TitleIdle ==
  /\ svc_pc = "off"
  /\ svc_message = <<>>
  /\ svc_current = FALSE
  /\ svc_title = "none"
  /\ svc_chat = [kind |-> "none", title |-> <<>>]
  /\ svc_logged = FALSE

ChatIdle ==
  /\ variant = "none"
  /\ sup_pc = "off"
  /\ remote_calls = <<>>
  /\ sup_response = [shape |-> "none", content |-> <<>>]
  /\ http_status = 0
  /\ http_body = <<>>

(***************************************************************************)
(* Bounds of the model.                                                    *)
(***************************************************************************)
MaxLen == 3          \* longest transcript handed to the normalizer

MaxTurns == 2        \* longest transcript handed to a routing pass

MaxTokenLen == 3     \* longest location token built from TokenChars

MaxHistory == 1      \* stored messages of the chat before the new one

MaxFlights == 2      \* most flights in a parsed summary

(***************************************************************************)
(* Text.                                                                   *)
(***************************************************************************)
LowerAlpha ==
  <<"a","b","c","d","e","f","g","h","i","j","k","l","m",
    "n","o","p","q","r","s","t","u","v","w","x","y","z">>

UpperAlpha ==
  <<"A","B","C","D","E","F","G","H","I","J","K","L","M",
    "N","O","P","Q","R","S","T","U","V","W","X","Y","Z">>

AlphaIdx == 1..26

\* str.lower() on one character
LowerChar(c) ==
  IF \E i \in AlphaIdx : UpperAlpha[i] = c
    THEN LowerAlpha[CHOOSE i \in AlphaIdx : UpperAlpha[i] = c]
    ELSE c

\* str.upper() on one character
UpperChar(c) ==
  IF \E i \in AlphaIdx : LowerAlpha[i] = c
    THEN UpperAlpha[CHOOSE i \in AlphaIdx : LowerAlpha[i] = c]
    ELSE c

\* str.lower()
Lower(s) == [i \in 1..Len(s) |-> LowerChar(s[i])]

\* str.upper()
Upper(s) == [i \in 1..Len(s) |-> UpperChar(s[i])]

\* whitespace as str.strip() and str.split() see it
IsSpace(c) == c \in {" ", "\t", "\n"}

\* str.strip()
Strip(s) ==
  LET keep == {i \in 1..Len(s) : ~IsSpace(s[i])}
  IN  IF keep = {} THEN <<>>
      ELSE SubSeq(s, CHOOSE i \in keep : \A j \in keep : i <= j,
                     CHOOSE i \in keep : \A j \in keep : j <= i)

\* len(s.split()): the number of maximal runs of non-whitespace
WordCount(s) ==
  Cardinality({i \in 1..Len(s) :
                 /\ ~IsSpace(s[i])
                 /\ (i = 1 \/ IsSpace(s[i-1]))})

\* Python's `needle in hay` on strings
Contains(hay, needle) ==
  \E i \in 0..(Len(hay) - Len(needle)) :
     SubSeq(hay, i + 1, i + Len(needle)) = needle

(***************************************************************************)
(* Sample texts.                                                           *)
(***************************************************************************)
\* "hi there"
T_hi_there ==
  <<"h","i"," ","t","h","e","r","e">>

\* "I'm processing your request..."
AssistantPlaceholderText ==
  <<"I","'","m"," ","p","r","o","c","e","s","s","i","n","g"," ",
    "y","o","u","r"," ","r","e","q","u","e","s","t",".",".",".">>

\* "..."
UserPlaceholderText ==
  <<".",".",".">>

\* "flight from Boston to San Diego next week"
T_flight_scenario ==
  <<"f","l","i","g","h","t"," ","f","r","o","m"," ","B","o",
    "s","t","o","n"," ","t","o"," ","S","a","n"," ","D","i",
    "e","g","o"," ","n","e","x","t"," ","w","e","e","k">>

\* "Welcome! I can help with booking **accessible flights and hotels**.\nPlease
\* tell me:\n- Your travel dates\n- Destination\n- Any accessibility needs
\* (e.g., wheelchair assistance)."
CannedReplyText ==
  <<"W","e","l","c","o","m","e","!"," ","I"," ","c","a","n",
    " ","h","e","l","p"," ","w","i","t","h"," ","b","o","o",
    "k","i","n","g"," ","*","*","a","c","c","e","s","s","i",
    "b","l","e"," ","f","l","i","g","h","t","s"," ","a","n",
    "d"," ","h","o","t","e","l","s","*","*",".","\n","P","l",
    "e","a","s","e"," ","t","e","l","l"," ","m","e",":","\n",
    "-"," ","Y","o","u","r"," ","t","r","a","v","e","l"," ",
    "d","a","t","e","s","\n","-"," ","D","e","s","t","i","n",
    "a","t","i","o","n","\n","-"," ","A","n","y"," ","a","c",
    "c","e","s","s","i","b","i","l","i","t","y"," ","n","e",
    "e","d","s"," ","(","e",".","g",".",","," ","w","h","e",
    "e","l","c","h","a","i","r"," ","a","s","s","i","s","t",
    "a","n","c","e",")",".">>

\* a reply of the flight agent: "AA 234 departs BOS 8:00 AM"
T_flight_reply ==
  <<"A","A"," ","2","3","4"," ","d","e","p","a","r","t","s",
    " ","B","O","S"," ","8",":","0","0"," ","A","M">>

\* a reply of the lodging agent: "Hyatt Regency, roll-in shower"
T_lodging_reply ==
  <<"H","y","a","t","t"," ","R","e","g","e","n","c","y",",",
    " ","r","o","l","l","-","i","n"," ","s","h","o","w","e",
    "r">>

\* an answer of the language model: "Travel plan: no details yet"
T_summary ==
  <<"T","r","a","v","e","l"," ","p","l","a","n",":"," ","n",
    "o"," ","d","e","t","a","i","l","s"," ","y","e","t">>

Roles == {"user", "assistant", "system"}

Msg(r, c) == [role |-> r, content |-> c]

(***************************************************************************)
(* utils.py: enforce_role_alternation                                      *)
(***************************************************************************)
AssistantPlaceholder == Msg("assistant", AssistantPlaceholderText)

UserPlaceholder == Msg("user", UserPlaceholderText)

\* a slip that forgets the assistant branch of the loop body
NormStepNoAssistantBranch(fx, msg) ==
  IF msg.role = fx[Len(fx)].role /\ msg.role = "user"
    THEN fx \o <<AssistantPlaceholder, msg>>
    ELSE Append(fx, msg)

\* a slip that appends the placeholder after the message instead of before it
NormStepPlaceholderAfter(fx, msg) ==
  IF msg.role = fx[Len(fx)].role
    THEN IF msg.role = "user"
           THEN fx \o <<msg, AssistantPlaceholder>>
           ELSE IF msg.role = "assistant"
                  THEN fx \o <<msg, UserPlaceholder>>
                  ELSE Append(fx, msg)
    ELSE Append(fx, msg)

\* one iteration of the loop: utils.py lines 6-12
NormStep(fx, msg) ==
  IF msg.role = fx[Len(fx)].role
    THEN IF msg.role = "user"
           THEN fx \o <<AssistantPlaceholder, msg>>
           ELSE IF msg.role = "assistant"
                  THEN fx \o <<UserPlaceholder, msg>>
                  ELSE Append(fx, msg)
    ELSE Append(fx, msg)

RECURSIVE NormLoop(_, _, _)
NormLoop(fx, msgs, i) ==
  IF i > Len(msgs) THEN fx
  ELSE NormLoop(NormStep(fx, msgs[i]), msgs, i + 1)

enforce_role_alternation(msgs) ==
  IF msgs = <<>> THEN msgs
  ELSE NormLoop(<<msgs[1]>>, msgs, 2)

(***************************************************************************)
(* The normalizer on its own: every transcript of at most MaxLen messages. *)
(***************************************************************************)
NormContents == {T_hi_there, UserPlaceholderText}

NormMessages == {Msg(r, c) : r \in Roles, c \in NormContents}

RECURSIVE SeqsUpTo(_, _)
SeqsUpTo(S, n) ==
  IF n = 0 THEN {<<>>}
  ELSE LET shorter == SeqsUpTo(S, n - 1)
       IN  shorter \cup {Append(s, x) : s \in {t \in shorter : Len(t) = n - 1}, x \in S}

InitNorm ==
  /\ messages \in SeqsUpTo(NormMessages, MaxLen)
  /\ error = "none"
  /\ fixed = <<>>
  /\ norm_pc = "call"
  /\ RouteIdle
  /\ CityIdle
  /\ ChatIdle
  /\ StoreIdle
  /\ TitleIdle

NormalizeCall ==
  /\ norm_pc = "call"
  /\ fixed' = enforce_role_alternation(messages)
  /\ norm_pc' = "done"
  /\ UNCHANGED <<messages, error, routeVars, cityVars, chatVars,
                 storeVars, titleVars>>

NextNorm == NormalizeCall

SpecNorm == InitNorm /\ [][NextNorm]_vars

(***************************************************************************)
(* Claims about the normalizer.                                            *)
(***************************************************************************)
\* C1: the output of enforce_role_alternation has no two adjacent messages
\* that are both non-system and carry the same role.
C1_Alternation ==
  norm_pc = "done" =>
    \A k \in 1..(Len(fixed) - 1) :
       ~(fixed[k].role = fixed[k+1].role /\ fixed[k].role # "system")

\* C1's case: the input had two adjacent user messages and a placeholder went in
C1_Witness ==
  /\ norm_pc = "done"
  /\ \E k \in 1..(Len(messages) - 1) :
        messages[k].role = "user" /\ messages[k+1].role = "user"
  /\ Len(fixed) > Len(messages)

RECURSIVE KeepFrom(_, _, _)
KeepFrom(out, S, k) ==
  IF k > Len(out) THEN <<>>
  ELSE (IF k \in S THEN <<>> ELSE <<out[k]>>) \o KeepFrom(out, S, k + 1)

PlaceholderBefore(role) ==
  IF role = "user" THEN AssistantPlaceholder ELSE UserPlaceholder

\* `out` is `t` with placeholders inserted at the positions S: dropping S gives
\* t; every inserted message is the placeholder of the opposite role of the
\* message that follows it, which repeats the role of the message emitted
\* before it; and every original message with a role in `covered` that repeats
\* the role of the message emitted just before it has a placeholder before it.
InsertedAt(out, t, S, covered) ==
  /\ KeepFrom(out, S, 1) = t
  /\ \A k \in S :
       /\ 1 < k /\ k < Len(out)
       /\ (k - 1) \notin S /\ (k + 1) \notin S
       /\ out[k+1].role \in {"user", "assistant"}
       /\ out[k] = PlaceholderBefore(out[k+1].role)
       /\ out[k].role # out[k+1].role
       /\ out[k-1].role = out[k+1].role
  /\ \A k \in 2..Len(out) :
       (k \notin S /\ (k - 1) \notin S /\ out[k].role \in covered)
         => out[k].role # out[k-1].role

\* C2 (as amended): the output is the input with placeholders inserted; none of
\* the original messages is dropped or reordered, and exactly one placeholder of
\* the opposite role stands immediately before each user or assistant message
\* whose role equals the role of the message emitted just before it.
C2_OrderPreserving ==
  norm_pc = "done" =>
    \E S \in SUBSET (1..Len(fixed)) :
       InsertedAt(fixed, messages, S, {"user", "assistant"})

\* C2 as stated: a placeholder before each message, of any role, whose role
\* equals the role of the message emitted just before it.
C2_Original ==
  norm_pc = "done" =>
    \E S \in SUBSET (1..Len(fixed)) :
       InsertedAt(fixed, messages, S, Roles)

\* C2's case: placeholders were inserted before a repeated user message and
\* before a repeated assistant message of one transcript
C2_Witness ==
  /\ norm_pc = "done"
  /\ Len(messages) = 3
  /\ messages[1].role = "assistant" /\ messages[2].role = "assistant"
  /\ messages[3].role = "assistant"
  /\ Len(fixed) = 5

\* a list without its system messages
WithoutSystem(msgs) == SelectSeq(msgs, LAMBDA m : m.role # "system")

\* C18: system messages leave the alternation cursor alone: the normalized
\* list with its system messages removed has no two consecutive messages of
\* equal role.
C18_SystemExempt ==
  norm_pc = "done" =>
    LET out == WithoutSystem(fixed)
    IN  \A i \in 1..(Len(out) - 1) : out[i].role # out[i + 1].role

\* C21: enforce_role_alternation is idempotent, leaves its argument as it
\* was, and for a non-empty transcript returns a list whose first and last
\* messages are the first and last messages of the transcript.
C21_Idempotent ==
  /\ [](norm_pc = "done" =>
          /\ enforce_role_alternation(fixed) = fixed
          /\ messages # <<>> =>
                /\ fixed # <<>>
                /\ fixed[1] = messages[1]
                /\ fixed[Len(fixed)] = messages[Len(messages)])
  /\ [][messages' = messages]_vars

\* C21's case: a transcript [user, user, system] was normalized to four
\* messages, and normalizing those again changes nothing
C21_Witness ==
  /\ norm_pc = "done"
  /\ Len(messages) = 3
  /\ messages[1].role = "user" /\ messages[2].role = "user"
  /\ messages[3].role = "system"
  /\ Len(fixed) = 4
  /\ fixed[2] = AssistantPlaceholder
  /\ enforce_role_alternation(fixed) = fixed

(***************************************************************************)
(* magentic_ai.py: the routing state machine.                              *)
(*                                                                         *)
(* The compiled workflow has the nodes supervisor, Flight-Agent,           *)
(* Lodging-Agent and final_answer.  The language model and the two        *)
(* capability agents are remote: each call either returns or raises.      *)
(***************************************************************************)
MAX_ITERATIONS == 6

\* worker_descriptions.keys()
Workers == {"Flight-Agent", "Lodging-Agent"}

CannedReply == Msg("assistant", CannedReplyText)

\* What the selection policy (the language model) may answer: text that is
\* not JSON, JSON that is not an object, an object without "next_node", and
\* an object whose "next_node" is a worker, "FINISH", null ("None") or a name
\* the graph does not know (the system prompt calls the workers "Flying
\* Agent" and "Hotel Agent").
PolicyNames == Workers \cup {"FINISH", "None", "Hotel Agent"}

PolicyResponses ==
  {[kind |-> k, next_node |-> "None"] : k \in {"not_json", "not_object", "no_key"}}
    \cup {[kind |-> "object", next_node |-> v] : v \in PolicyNames}

\* a parse_next_node whose default for a missing key is a worker
parse_next_node_default_worker(answer) ==
  IF answer.kind = "not_json" THEN "FINISH"
  ELSE IF answer.kind = "not_object" THEN "FINISH"
  ELSE IF answer.kind = "no_key" THEN "Flight-Agent"
  ELSE answer.next_node

parse_next_node(answer) ==
  IF answer.kind = "not_json" THEN "FINISH"            \* json.loads raises
  ELSE IF answer.kind = "not_object" THEN "FINISH"     \* .get raises
  ELSE IF answer.kind = "no_key" THEN "FINISH"         \* the default of .get
  ELSE answer.next_node

\* next((m["content"] for m in state["messages"] if m["role"] == "user"), "")
FirstUserContent(msgs) ==
  LET users == {i \in 1..Len(msgs) : msgs[i].role = "user"}
  IN  IF users = {} THEN <<>>
      ELSE msgs[CHOOSE i \in users : \A j \in users : i <= j].content

\* a slip that lets one more iteration through
IterationGuardOffByOne(count) == count > MAX_ITERATIONS + 1

\* if count > MAX_ITERATIONS
IterationGuard(count) == count > MAX_ITERATIONS

\* whether a supervisor step gets as far as the policy's answer: lines
\* 171-186 return before it, and the language-model call may raise
PolicyConsulted(msgs, ic, llm_ok) ==
  /\ ~IterationGuard(ic + 1)
  /\ ~(WordCount(Strip(FirstUserContent(msgs))) < 3)
  /\ llm_ok

\* a supervisor without the self-loop test on the prior selection
supervisor_agent_no_self_loop_test(msgs, ic, nn, answer, llm_ok) ==
  LET count    == ic + 1
      user_msg == FirstUserContent(msgs)
      finish   == [raised |-> FALSE, next_node |-> "FINISH",
                   iteration_count |-> ic, messages |-> <<>>]
  IN  IF IterationGuard(count) THEN finish
      ELSE IF WordCount(Strip(user_msg)) < 3
        THEN [finish EXCEPT !.messages = <<CannedReply>>]
      ELSE IF ~llm_ok
        THEN [finish EXCEPT !.raised = TRUE, !.next_node = nn]
      ELSE [raised |-> FALSE, next_node |-> parse_next_node(answer),
            iteration_count |-> count, messages |-> <<>>]

\* The supervisor node.  The result is the state update it returns:
\* `raised` when the language-model call raised, else the new next_node, the
\* new iteration_count (the old one when the update has no such key) and the
\* messages it adds.
supervisor_agent(msgs, ic, nn, answer, llm_ok) ==
  LET count    == ic + 1
      user_msg == FirstUserContent(msgs)
      finish   == [raised |-> FALSE, next_node |-> "FINISH",
                   iteration_count |-> ic, messages |-> <<>>]
  IN  IF IterationGuard(count) THEN finish
      ELSE IF WordCount(Strip(user_msg)) < 3
        THEN [finish EXCEPT !.messages = <<CannedReply>>]
      ELSE IF ~llm_ok
        THEN [finish EXCEPT !.raised = TRUE, !.next_node = nn]
      ELSE LET selected == parse_next_node(answer)
           IN  IF nn = selected THEN finish
               ELSE [raised |-> FALSE, next_node |-> selected,
                     iteration_count |-> count, messages |-> <<>>]

\* add_conditional_edges("supervisor", lambda x: x["next_node"], {...}):
\* a value outside the mapping is a KeyError
RouteEdge(nn) ==
  IF nn \in Workers THEN nn
  ELSE IF nn = "FINISH" THEN "final_answer"
  ELSE "KeyError"

\* what a capability agent answers
AgentReply(name) ==
  IF name = "Flight-Agent" THEN Msg("assistant", T_flight_reply)
  ELSE Msg("assistant", T_lodging_reply)

\* the Flask wrapper: the content of the last assistant message, else of the
\* last message, else ""
WrapperContent(resp) ==
  LET assistants == {i \in 1..Len(resp) : resp[i].role = "assistant"}
  IN  IF assistants # {}
        THEN resp[CHOOSE i \in assistants : \A j \in assistants : j <= i].content
      ELSE IF resp # <<>> THEN resp[Len(resp)].content
      ELSE <<>>

RouteTexts == {T_hi_there, T_flight_scenario}

RouteMessages == {Msg(r, c) : r \in {"user", "assistant"}, c \in RouteTexts}

\* LangGraphChatAgent.predict(messages): the request holds the messages only
InitRoute ==
  /\ messages \in SeqsUpTo(RouteMessages, MaxTurns)
  /\ node = "supervisor"
  /\ st_messages = messages
  /\ iteration_count = 0
  /\ next_node = "None"
  /\ resp_messages = <<>>
  /\ reply = <<>>
  /\ error = "none"
  /\ dispatched = <<>>
  /\ policy_kind = "none"
  /\ NormIdle
  /\ CityIdle
  /\ ChatIdle
  /\ StoreIdle
  /\ TitleIdle

SupervisorNode ==
  /\ node = "supervisor"
  /\ \E answer \in PolicyResponses, llm_ok \in BOOLEAN :
       LET upd == supervisor_agent(st_messages, iteration_count, next_node,
                                   answer, llm_ok)
       IN  IF upd.raised
             THEN /\ node' = "failed"
                  /\ error' = "RemoteError"
                  /\ UNCHANGED <<st_messages, iteration_count, next_node,
                                 resp_messages, policy_kind>>
             ELSE /\ next_node' = upd.next_node
                  /\ policy_kind' =
                       IF PolicyConsulted(st_messages, iteration_count, llm_ok)
                         THEN answer.kind ELSE policy_kind
                  /\ iteration_count' = upd.iteration_count
                  /\ st_messages' = st_messages \o upd.messages
                  /\ resp_messages' = resp_messages \o upd.messages
                  /\ IF RouteEdge(upd.next_node) = "KeyError"
                       THEN node' = "failed" /\ error' = "KeyError"
                       ELSE node' = RouteEdge(upd.next_node) /\ error' = error
  /\ UNCHANGED <<reply, dispatched, messages, normVars, cityVars, chatVars,
                 storeVars, titleVars>>

AgentNode ==
  /\ node \in Workers
  /\ dispatched' = Append(dispatched, node)
  /\ \E agent_ok \in BOOLEAN :
       IF agent_ok
         THEN /\ st_messages' = Append(st_messages, AgentReply(node))
              /\ resp_messages' = Append(resp_messages, AgentReply(node))
              /\ node' = "supervisor"
              /\ error' = error
         ELSE /\ node' = "failed"
              /\ error' = "RemoteError"
              /\ UNCHANGED <<st_messages, resp_messages>>
  /\ UNCHANGED <<iteration_count, next_node, reply, policy_kind, messages,
                 normVars, cityVars, chatVars, storeVars, titleVars>>

FinalAnswerNode ==
  /\ node = "final_answer"
  /\ \E llm_ok \in BOOLEAN :
       IF llm_ok
         THEN /\ st_messages' = Append(st_messages, Msg("assistant", T_summary))
              /\ resp_messages' = Append(resp_messages, Msg("assistant", T_summary))
              /\ node' = "END"
              /\ error' = error
         ELSE /\ node' = "failed"
              /\ error' = "RemoteError"
              /\ UNCHANGED <<st_messages, resp_messages>>
  /\ UNCHANGED <<iteration_count, next_node, reply, dispatched, policy_kind,
                 messages, normVars, cityVars, chatVars,
                 storeVars, titleVars>>

WrapperReturn ==
  /\ node = "END"
  /\ reply' = WrapperContent(resp_messages)
  /\ node' = "returned"
  /\ UNCHANGED <<st_messages, iteration_count, next_node, resp_messages, error,
                 dispatched, policy_kind, messages, normVars, cityVars,
                 chatVars, storeVars, titleVars>>

NextRoute ==
  \/ SupervisorNode
  \/ AgentNode
  \/ FinalAnswerNode
  \/ WrapperReturn

SpecRoute == InitRoute /\ [][NextRoute]_vars

\* the graph runs every node of a pass to completion
SpecRouteFair == SpecRoute /\ WF_vars(NextRoute)

(***************************************************************************)
(* Claims about the routing state machine.                                 *)
(***************************************************************************)
\* the result assembler (final_answer) has run
Finished == node \in {"END", "returned"}

\* C3: whatever the selection policy answers, one pass dispatches a
\* capability agent at most MAX_ITERATIONS times.
C3_DispatchBound == Len(dispatched) <= MAX_ITERATIONS

\* C3's case: a policy that alternates between the two workers is cut off by
\* the iteration guard after MAX_ITERATIONS dispatches, and the pass finishes
C3_Witness ==
  /\ node = "returned"
  /\ Len(dispatched) = MAX_ITERATIONS
  /\ iteration_count = MAX_ITERATIONS

\* C5: for a user message of fewer than 3 words the pass invokes no capability
\* agent and the reply returned to the caller is the canned clarification.
C5_ShortCircuit ==
  (/\ node = "returned"
   /\ Len(messages) = 1
   /\ messages[1].role = "user"
   /\ WordCount(messages[1].content) < 3)
    => (dispatched = <<>> /\ reply = CannedReplyText)

\* C10: every pass reaches FINISHED whatever the selection policy answers (a
\* remote call that raises set aside), no step fails unhandled, and FINISHED
\* is terminal.
C10_AlwaysFinishes ==
  /\ <>(Finished \/ error = "RemoteError")
  /\ [](error # "KeyError")
  /\ [][Finished => Finished']_vars

\* C11: within a pass iteration_count starts at 0, never decreases, grows by
\* exactly 1 on each supervisor step that routes to a capability agent, and
\* never exceeds MAX_ITERATIONS.
C11_IterationCount ==
  /\ iteration_count = 0
  /\ [](iteration_count \in 0..MAX_ITERATIONS)
  /\ [][/\ iteration_count' >= iteration_count
        /\ (node = "supervisor" /\ node' \in Workers)
             => iteration_count' = iteration_count + 1]_vars

\* C11's case: the sixth supervisor step of a pass routed to a capability
\* agent, after five dispatches
C11_Witness ==
  /\ node \in Workers
  /\ iteration_count = MAX_ITERATIONS
  /\ Len(dispatched) = MAX_ITERATIONS - 1

\* C12: once the supervisor has set it, next_node is Flight-Agent,
\* Lodging-Agent or FINISH, whatever the selection policy answers ("None" is
\* the key still absent from the state).
C12_NextNodeInEnum == next_node \in Workers \cup {"FINISH", "None"}

\* the content of the last user message of a transcript that has one
LatestUserContent(msgs) ==
  LET users == {i \in 1..Len(msgs) : msgs[i].role = "user"}
  IN  msgs[CHOOSE i \in users : \A j \in users : j <= i].content

\* C16: once the first supervisor step of a pass has been taken, the canned
\* clarification was emitted exactly when the latest user message of the
\* transcript has fewer than 3 words.
C16_LatestUserMessage ==
  (/\ node \in Workers \cup {"final_answer", "END", "returned"}
   /\ \E i \in 1..Len(messages) : messages[i].role = "user")
  => ((\E i \in 1..Len(resp_messages) : resp_messages[i] = CannedReply)
        <=> WordCount(Strip(LatestUserContent(messages))) < 3)

\* C17: a supervisor step never routes to the capability agent of the prior
\* selection, so no capability agent is dispatched twice in a row in a pass.
C17_NoSelfLoop ==
  /\ [][(node = "supervisor" /\ node' \in Workers) => node' # next_node]_vars
  /\ [](\A i \in 1..(Len(dispatched) - 1) : dispatched[i] # dispatched[i + 1])

\* C17's case: after one dispatch the policy selected the same agent again
\* and the pass finished without a second dispatch (any other answer would
\* have raised iteration_count to 2)
C17_Witness ==
  /\ node = "returned"
  /\ Len(dispatched) = 1
  /\ iteration_count = 1
  /\ next_node = "FINISH"

\* the kinds of policy answer that are not an object with a next_node key
MalformedKinds == {"not_json", "not_object", "no_key"}

\* C24: parse_next_node never raises and gives "FINISH" for a policy answer
\* that is not JSON, is JSON but not an object, or is an object without
\* the next_node key; so once the supervisor has read such an answer the
\* selection is "FINISH", no capability agent is dispatched or pending, the
\* supervisor is not re-entered, and the pass has not failed on the routing
\* edge: it is in or past the final-answer step.
C24_MalformedFinishes ==
  /\ \A answer \in PolicyResponses :
       answer.kind \in MalformedKinds => parse_next_node(answer) = "FINISH"
  /\ policy_kind \in MalformedKinds =>
       /\ next_node = "FINISH"
       /\ node \in {"final_answer", "END", "returned", "failed"}
       /\ error # "KeyError"
       /\ node = "failed" => error = "RemoteError"

\* a pass that dispatched one agent, then read an object without the key at
\* the second supervisor step, and returned its summary
C24_Witness ==
  /\ policy_kind = "no_key"
  /\ node = "returned"
  /\ Len(dispatched) = 1
  /\ iteration_count = 2
  /\ next_node = "FINISH"

(***************************************************************************)
(* app.py: get_city_name                                                   *)
(***************************************************************************)
\* AIRPORT_TO_CITY, as the set of its (code, city) items
AIRPORT_TO_CITY ==
  { <<<<"S","F","O">>, <<"S","a","n"," ","F","r","a","n","c","i","s","c","o">>>>,
    <<<<"L","A","X">>, <<"L","o","s"," ","A","n","g","e","l","e","s">>>>,
    <<<<"J","F","K">>, <<"N","e","w"," ","Y","o","r","k">>>>,
    <<<<"L","G","A">>, <<"N","e","w"," ","Y","o","r","k">>>>,
    <<<<"E","W","R">>, <<"N","e","w","a","r","k">>>>,
    <<<<"O","R","D">>, <<"C","h","i","c","a","g","o">>>>,
    <<<<"D","F","W">>, <<"D","a","l","l","a","s">>>>,
    <<<<"A","T","L">>, <<"A","t","l","a","n","t","a">>>>,
    <<<<"M","I","A">>, <<"M","i","a","m","i">>>>,
    <<<<"S","E","A">>, <<"S","e","a","t","t","l","e">>>>,
    <<<<"D","E","N">>, <<"D","e","n","v","e","r">>>>,
    <<<<"L","A","S">>, <<"L","a","s"," ","V","e","g","a","s">>>>,
    <<<<"P","H","X">>, <<"P","h","o","e","n","i","x">>>>,
    <<<<"B","O","S">>, <<"B","o","s","t","o","n">>>>,
    <<<<"I","A","D">>, <<"W","a","s","h","i","n","g","t","o","n">>>>,
    <<<<"D","C","A">>, <<"W","a","s","h","i","n","g","t","o","n">>>>,
    <<<<"S","J","C">>, <<"S","a","n"," ","J","o","s","e">>>>,
    <<<<"O","A","K">>, <<"O","a","k","l","a","n","d">>>>,
    <<<<"P","D","X">>, <<"P","o","r","t","l","a","n","d">>>>,
    <<<<"S","A","N">>, <<"S","a","n"," ","D","i","e","g","o">>>> }

AirportCodes == {item[1] : item \in AIRPORT_TO_CITY}

CityOf(code) == (CHOOSE item \in AIRPORT_TO_CITY : item[1] = code)[2]

get_city_name(loc) ==
  LET upper_stripped == Strip(Upper(loc))    \* location.upper().strip()
  IN  IF upper_stripped \in AirportCodes THEN CityOf(upper_stripped)
      ELSE upper_stripped

\* "Timbuktu"
T_Timbuktu ==
  <<"T","i","m","b","u","k","t","u">>

\* "San Francisco"
T_San_Francisco ==
  <<"S","a","n"," ","F","r","a","n","c","i","s","c","o">>

\* "SFO"
T_SFO ==
  <<"S","F","O">>

\* the characters the short location tokens are made of
TokenChars == {"S", "F", "O", "s", "f", "o", " "}

LocationTokens ==
  SeqsUpTo(TokenChars, MaxTokenLen) \cup {T_Timbuktu, T_San_Francisco}

InitCity ==
  /\ location \in LocationTokens
  /\ city = <<>>
  /\ city_pc = "call"
  /\ messages = <<>>
  /\ error = "none"
  /\ NormIdle
  /\ RouteIdle
  /\ ChatIdle
  /\ StoreIdle
  /\ TitleIdle

GetCityNameCall ==
  /\ city_pc = "call"
  /\ city' = get_city_name(location)
  /\ city_pc' = "done"
  /\ UNCHANGED <<location, messages, error, normVars, routeVars, chatVars,
                 storeVars, titleVars>>

NextCity == GetCityNameCall

SpecCity == InitCity /\ [][NextCity]_vars

\* C6: a recognized airport code resolves to its city (SFO to San Francisco)
\* and every unrecognized token is returned exactly as it was given.
C6_CityFallback ==
  city_pc = "done" =>
    /\ (location = T_SFO => city = T_San_Francisco)
    /\ (Upper(Strip(location)) \notin AirportCodes => city = location)

(***************************************************************************)
(* More sample texts.                                                      *)
(***************************************************************************)
\* "Fly to a HOTEL"
T_fly_hotel ==
  <<"F","l","y"," ","t","o"," ","a"," ","H","O","T","E","L">>

\* "book a hotel room"
T_hotel_room ==
  <<"b","o","o","k"," ","a"," ","h","o","t","e","l"," ","r",
    "o","o","m">>

\* "tell me a joke"
T_joke ==
  <<"t","e","l","l"," ","m","e"," ","a"," ","j","o","k","e">>

\* "from SFO to LAX"
T_from_to ==
  <<"f","r","o","m"," ","S","F","O"," ","t","o"," ","L","A",
    "X">>

\* "to LAX from SFO"
T_to_from ==
  <<"t","o"," ","L","A","X"," ","f","r","o","m"," ","S","F",
    "O">>

\* "trip to LAX from"
T_trip ==
  <<"t","r","i","p"," ","t","o"," ","L","A","X"," ","f","r",
    "o","m">>

\* "cheap FLIGHT deals"
T_any_flight ==
  <<"c","h","e","a","p"," ","F","L","I","G","H","T"," ","d",
    "e","a","l","s">>

(***************************************************************************)
(* agents.py: the keyword classifier of supervisor_agent                   *)
(***************************************************************************)
flight_keywords ==
  { <<"f","l","i","g","h","t">>,
    <<"f","l","y">>,
    <<"t","i","c","k","e","t">>,
    <<"a","i","r","l","i","n","e">>,
    <<"a","i","r","p","o","r","t">>,
    <<"d","e","p","a","r","t">>,
    <<"a","r","r","i","v","e">> }

lodging_keywords ==
  { <<"h","o","t","e","l">>,
    <<"l","o","d","g","i","n","g">>,
    <<"a","c","c","o","m","m","o","d","a","t","i","o","n">>,
    <<"s","t","a","y">>,
    <<"i","n","n">>,
    <<"m","o","t","e","l">>,
    <<"h","o","s","t","e","l">>,
    <<"b","n","b">>,
    <<"r","o","o","m">> }

\* a classifier whose fall-through is the flight agent, not the general path
classify_without_general_path(user_content) ==
  IF \E keyword \in lodging_keywords \cup flight_keywords :
       Contains(user_content, keyword)
    THEN IF \E keyword \in flight_keywords : Contains(user_content, keyword)
           THEN "flight_agent"
           ELSE "lodging_agent"
  ELSE "flight_agent"

classify_lodging_first(user_content) ==
  IF \E keyword \in lodging_keywords : Contains(user_content, keyword)
    THEN "lodging_agent"
  ELSE IF \E keyword \in flight_keywords : Contains(user_content, keyword)
    THEN "flight_agent"
  ELSE "llm"

\* agents.py lines 59-72: which handler the supervisor awaits
classify(user_content) ==
  LET is_flight_query ==
        \E keyword \in flight_keywords : Contains(user_content, keyword)
      is_lodging_query ==
        \E keyword \in lodging_keywords : Contains(user_content, keyword)
  IN  IF is_flight_query THEN "flight_agent"
      ELSE IF is_lodging_query THEN "lodging_agent"
      ELSE "llm"

\* What a remote agent hands back, as far as the callers tell it apart: a dict
\* with or without a 'content' key, an object with a content attribute, or
\* anything else.
ResponseShapes == {"dict_content", "dict_nocontent", "object", "other"}

NoResponse == [shape |-> "none", content |-> <<>>]

\* text the model does not look into, one line each
AgentText == <<"(agent text)">>

LlmText == <<"(language-model text)">>

\* agents.py supervisor_agent.  `handler` is the outcome of the awaited call:
\* "raise" or the shape of what it returns.  The result: the exception that
\* left the function ("none" if it returned), the remote calls made, and the
\* value returned.
agents_supervisor_agent(msgs, handler) ==
  IF msgs = <<>>
    THEN [error |-> "IndexError", calls |-> <<>>, response |-> NoResponse]
  ELSE
    LET alternated_messages == enforce_role_alternation(msgs)
        user_content ==
          Lower(alternated_messages[Len(alternated_messages)].content)
        chosen == classify(user_content)
    IN  IF handler = "raise"
          THEN [error |-> "RemoteError", calls |-> <<chosen>>,
                response |-> NoResponse]
        ELSE IF chosen = "llm"
          THEN [error |-> "none", calls |-> <<chosen>>,
                response |-> [shape |-> "object", content |-> LlmText]]
        ELSE [error |-> "none", calls |-> <<chosen>>,
              response |-> [shape |-> handler,
                            content |-> IF handler \in {"dict_content", "object"}
                                          THEN AgentText ELSE <<>>]]

(***************************************************************************)
(* app.py: supervisor_agent, weather_agent, get_weather                    *)
(***************************************************************************)
Digits == {"0", "1", "2", "3", "4", "5", "6", "7", "8", "9"}

\* the regular expression classes \w and \s, together: [\w\s]
IsWordOrSpace(c) ==
  \/ IsSpace(c)
  \/ c \in Digits \cup {"_"}
  \/ \E i \in AlphaIdx : c = LowerAlpha[i] \/ c = UpperAlpha[i]

W_flight == <<"f","l","i","g","h","t">>

W_from == <<"f","r","o","m">>

W_to == <<"t","o">>

\* re.search(r'from ([\w\s]+) to ([\w\s]+)', s): the leftmost start, the first
\* group as long as it can be, then the second.  `at` is where "from " starts
\* and `to` where " to " starts.
FromToStarts(s) ==
  {p \in [at : 1..Len(s), to : 1..Len(s)] :
     /\ p.at + 5 < p.to
     /\ p.to + 4 <= Len(s)
     /\ SubSeq(s, p.at, p.at + 4) = W_from \o <<" ">>
     /\ SubSeq(s, p.to, p.to + 3) = <<" ">> \o W_to \o <<" ">>
     /\ \A k \in (p.at + 5)..(p.to - 1) : IsWordOrSpace(s[k])
     /\ IsWordOrSpace(s[p.to + 4])}

FromToMatch(s) ==
  LET starts == FromToStarts(s)
  IN  IF starts = {} THEN [matched |-> FALSE, src |-> <<>>, dst |-> <<>>]
      ELSE
        LET at  == CHOOSE a \in {p.at : p \in starts} :
                     \A p \in starts : a <= p.at
            to  == CHOOSE b \in {p.to : p \in {q \in starts : q.at = at}} :
                     \A p \in {q \in starts : q.at = at} : p.to <= b
            stop == CHOOSE e \in (to + 4)..Len(s) :
                      /\ \A k \in (to + 4)..e : IsWordOrSpace(s[k])
                      /\ (e = Len(s) \/ ~IsWordOrSpace(s[e + 1]))
        IN  [matched |-> TRUE,
             src |-> SubSeq(s, at + 5, to - 1),
             dst |-> SubSeq(s, to + 4, stop)]

\* str.split()
RECURSIVE SplitFrom(_, _)
SplitFrom(s, i) ==
  IF i > Len(s) THEN <<>>
  ELSE IF IsSpace(s[i]) THEN SplitFrom(s, i + 1)
  ELSE LET e == CHOOSE j \in i..Len(s) :
                  /\ \A k \in i..j : ~IsSpace(s[k])
                  /\ (j = Len(s) \/ IsSpace(s[j + 1]))
       IN  <<SubSeq(s, i, e)>> \o SplitFrom(s, e + 1)

Split(s) == SplitFrom(s, 1)

\* list.index(x)
IndexOf(list, x) ==
  CHOOSE i \in 1..Len(list) : list[i] = x /\ \A j \in 1..(i - 1) : list[j] # x

\* app.py lines 230-239: the source and destination found in the message
\* (<<>> stands for None), or the IndexError of tokens[...+1]
ExtractRoute(user_content) ==
  LET match == FromToMatch(user_content)
      tokens == Split(user_content)
  IN  IF match.matched
        THEN [raised |-> FALSE, src |-> Strip(match.src), dst |-> Strip(match.dst)]
      ELSE IF (\E i \in 1..Len(tokens) : tokens[i] = W_from)
              /\ (\E i \in 1..Len(tokens) : tokens[i] = W_to)
        THEN IF IndexOf(tokens, W_from) = Len(tokens)
                \/ IndexOf(tokens, W_to) = Len(tokens)
               THEN [raised |-> TRUE, src |-> <<>>, dst |-> <<>>]
               ELSE [raised |-> FALSE,
                     src |-> tokens[IndexOf(tokens, W_from) + 1],
                     dst |-> tokens[IndexOf(tokens, W_to) + 1]]
      ELSE [raised |-> FALSE, src |-> <<>>, dst |-> <<>>]

\* get_weather: one line of markdown, whatever happens to the request
get_weather(outcome) ==
  IF outcome = "no_key" THEN "Weather API key not set."
  ELSE IF outcome = "not_200" THEN "Weather for {city}: Not found."
  ELSE IF outcome = "exception" THEN "Weather for {city}: Error fetching data."
  ELSE "**Weather in {city}**: {desc}, {temp} (feels like {feels}), ..."

\* weather_agent: f"\n---\n{src_weather}\n\n{dst_weather}\n---\n", as lines
weather_agent(src_outcome, dst_outcome) ==
  <<"", "---", get_weather(src_outcome), "", get_weather(dst_outcome), "---", "">>

RECURSIVE FlightRows(_)
FlightRows(n) ==
  IF n = 0 THEN <<>>
  ELSE <<"| {airline} | {price} | {dates} | [link]({link}) | {accessibility} |">>
         \o FlightRows(n - 1)

\* app.py lines 262-268 and 277-283: the assembled markdown, as lines, for a
\* summary with n flights
formatted(n) ==
  <<"**Weather**", "{summary.weather}", "", "**Flights**">>
    \o (IF n > 0
          THEN <<"| Airline | Price | Dates | Link | Accessibility |",
                 "|--------|-------|-------|------|---------------|">>
                 \o FlightRows(n)
          ELSE <<"No flights found.">>)

\* The outcomes of the remote calls of one pass: the two city_name_agent calls
\* (TRUE: returns), the two weather requests, the flight agent ("raise" or the
\* shape of what it returns), summary_chain.run (-1: raises, else the number
\* of flights in the parsed summary) and llm.ainvoke (TRUE: returns).
WeatherOutcomes ==
  {<<"no_key", "no_key">>}
    \cup ({"ok", "not_200", "exception"} \X {"ok", "not_200", "exception"})

AppOutcomes ==
  [src_city : BOOLEAN, dst_city : BOOLEAN, weather : WeatherOutcomes,
   flight : ResponseShapes \cup {"raise"}, summary : -1..MaxFlights,
   llm : BOOLEAN]

\* app.py lines 224-239: what the text of the last message decides before any
\* remote call: the branch taken ("flight" or "llm"), an IndexError of
\* messages[-1] or of tokens[...+1], and whether both a source and a
\* destination were found (`if src and dst`)
app_message_plan(msgs) ==
  IF msgs = <<>>
    THEN [branch |-> "none", raised |-> TRUE, enrich |-> FALSE]     \* [-1]
  ELSE
    LET user_content == Lower(msgs[Len(msgs)].content)
    IN  IF Contains(user_content, W_flight)
           \/ (Contains(user_content, W_from) /\ Contains(user_content, W_to))
          THEN LET route == ExtractRoute(user_content)
               IN  [branch |-> "flight", raised |-> route.raised,
                    enrich |-> route.src # <<>> /\ route.dst # <<>>]
          ELSE [branch |-> "llm", raised |-> FALSE, enrich |-> FALSE]

\* app.py supervisor_agent (lines 223-288), given the plan of its message and
\* the outcomes of its remote calls.  The result: the exception that left the
\* function ("none" if it returned), the remote calls made, and the value
\* returned.
app_supervisor_agent(plan, o) ==
  LET raise(made) ==
        [error |-> "RemoteError", calls |-> made, response |-> NoResponse]
      return(made, shape, content) ==
        [error |-> "none", calls |-> made,
         response |-> [shape |-> shape, content |-> content]]
      lookups == IF plan.enrich
                   THEN <<"city_name_agent", "city_name_agent",
                          "get_weather", "get_weather">>
                   ELSE <<>>
      weather_md == IF plan.enrich
                      THEN weather_agent(o.weather[1], o.weather[2])
                      ELSE <<>>
  IN  IF plan.raised
        THEN [error |-> "IndexError", calls |-> <<>>, response |-> NoResponse]
      ELSE IF plan.branch = "flight"
        THEN
          IF plan.enrich /\ ~o.src_city THEN raise(<<"city_name_agent">>)
          ELSE IF plan.enrich /\ ~o.dst_city
            THEN raise(<<"city_name_agent", "city_name_agent">>)
          ELSE IF o.flight = "raise"
            THEN raise(lookups \o <<"flight_agent">>)
          ELSE IF o.flight = "dict_nocontent"
            THEN return(lookups \o <<"flight_agent">>, "dict_content", weather_md)
          ELSE IF o.flight = "other"
            THEN return(lookups \o <<"flight_agent">>, "other", <<>>)
          ELSE IF o.summary < 0
            THEN raise(lookups \o <<"flight_agent", "summary_chain">>)
          ELSE return(lookups \o <<"flight_agent", "summary_chain">>,
                      IF o.flight = "dict_content" THEN "str" ELSE "object",
                      formatted(o.summary))
      ELSE IF o.llm THEN return(<<"llm">>, "object", LlmText)
      ELSE raise(<<"llm">>)

(***************************************************************************)
(* app.py: the /chat handler around the supervisor (lines 424-455)         *)
(***************************************************************************)
\* lines 430-436: the text sent back for what the supervisor returned
formatted_response(resp) ==
  IF resp.shape \in {"dict_content", "dict_nocontent"}
    THEN <<"(str of the dict)">>         \* no 'agent' key, no content attribute
  ELSE IF resp.shape = "object" THEN resp.content
  ELSE IF resp.shape = "str" THEN resp.content
  ELSE <<"(str of the object)">>

HistoryTexts == {T_hi_there, T_hotel_room}

HistoryMessages ==
  {Msg(r, c) : r \in {"user", "assistant"}, c \in HistoryTexts}

ChatTexts ==
  {T_hi_there, T_flight_scenario, T_fly_hotel, T_hotel_room, T_joke,
   T_from_to, T_to_from, T_trip, T_any_flight}

\* words with and without keywords of either kind, in mixed case; "Dinner"
\* holds the lodging keyword "inn" inside a longer word
KeywordWords ==
  { <<"F","l","y">>,
    <<"T","I","C","K","E","T">>,
    <<"H","O","T","E","L">>,
    <<"s","t","a","y">>,
    <<"D","i","n","n","e","r">>,
    <<"h","i">> }

\* every two-word message over KeywordWords
KeywordTexts ==
  {first \o <<" ">> \o second : first \in KeywordWords, second \in KeywordWords}

\* lines 425-426: the stored messages of the chat, then the new user message;
\* `variant` is the module whose supervisor_agent the handler is bound to
InitChat ==
  /\ variant \in {"agents.py", "app.py"}
  /\ \E history \in SeqsUpTo(HistoryMessages, MaxHistory),
        message \in IF variant = "agents.py" THEN ChatTexts \cup KeywordTexts
                    ELSE ChatTexts :
       messages = Append(history, Msg("user", message))
  /\ error = "none"
  /\ sup_pc = "call"
  /\ remote_calls = <<>>
  /\ sup_response = NoResponse
  /\ http_status = 0
  /\ http_body = <<>>
  /\ NormIdle
  /\ RouteIdle
  /\ CityIdle
  /\ StoreIdle
  /\ TitleIdle

AgentsSupervisorCall ==
  /\ sup_pc = "call"
  /\ variant = "agents.py"
  /\ \E handler \in ResponseShapes \cup {"raise"} :
       LET result == agents_supervisor_agent(messages, handler)
       IN  /\ sup_pc' = IF result.error # "none" THEN "raised" ELSE "returned"
           /\ error' = result.error
           /\ remote_calls' = result.calls
           /\ sup_response' = result.response
  /\ UNCHANGED <<variant, http_status, http_body, messages, normVars,
                 routeVars, cityVars,
                 storeVars, titleVars>>

AppSupervisorCall ==
  /\ sup_pc = "call"
  /\ variant = "app.py"
  /\ \E plan \in {app_message_plan(messages)}, o \in AppOutcomes :
       LET result == app_supervisor_agent(plan, o)
       IN  /\ sup_pc' = IF result.error # "none" THEN "raised" ELSE "returned"
           /\ error' = result.error
           /\ remote_calls' = result.calls
           /\ sup_response' = result.response
  /\ UNCHANGED <<variant, http_status, http_body, messages, normVars,
                 routeVars, cityVars,
                 storeVars, titleVars>>

\* lines 430-450 after a return, lines 452-455 after an exception
ChatRespond ==
  /\ sup_pc \in {"returned", "raised"}
  /\ IF sup_pc = "returned"
       THEN http_status' = 200 /\ http_body' = formatted_response(sup_response)
       ELSE http_status' = 500 /\ http_body' = <<"(error and traceback)">>
  /\ sup_pc' = "responded"
  /\ UNCHANGED <<variant, remote_calls, sup_response, messages, error,
                 normVars, routeVars, cityVars,
                 storeVars, titleVars>>

NextChat ==
  \/ AgentsSupervisorCall
  \/ AppSupervisorCall
  \/ ChatRespond

SpecChat == InitChat /\ [][NextChat]_vars

Count(calls, name) == Cardinality({i \in 1..Len(calls) : calls[i] = name})

LastContent == messages[Len(messages)].content

HasFlightKeyword(text) ==
  \E keyword \in flight_keywords : Contains(Lower(text), keyword)

HasLodgingKeyword(text) ==
  \E keyword \in lodging_keywords : Contains(Lower(text), keyword)

\* C4: under the keyword classifier, a message whose text holds both a flight
\* keyword and a lodging keyword is dispatched to the flight agent and to
\* nothing else.
C4_FlightPrecedence ==
  (/\ variant = "agents.py"
   /\ sup_pc \in {"returned", "raised", "responded"}
   /\ HasFlightKeyword(LastContent)
   /\ HasLodgingKeyword(LastContent))
  => remote_calls = <<"flight_agent">>

C4_Witness ==
  /\ variant = "agents.py"
  /\ sup_pc = "responded"
  /\ LastContent = <<"H","O","T","E","L">> \o <<" ">> \o <<"F","l","y">>
  /\ HasFlightKeyword(LastContent)
  /\ HasLodgingKeyword(LastContent)
  /\ remote_calls = <<"flight_agent">>

\* C19: the keyword classifier invokes exactly one handler for every message,
\* fixed by the text of the transcript's most recent user message: the flight
\* agent if a flight keyword matches, else the lodging agent if a lodging
\* keyword matches, else the general language-model path; it raises on no
\* message text.
C19_ClassifierTotal ==
  (variant = "agents.py" /\ sup_pc \in {"returned", "raised", "responded"})
  => /\ error # "IndexError"
     /\ remote_calls =
          << IF HasFlightKeyword(LatestUserContent(messages))
               THEN "flight_agent"
             ELSE IF HasLodgingKeyword(LatestUserContent(messages))
               THEN "lodging_agent"
             ELSE "llm" >>

\* C19's case: a message without any keyword, after a stored exchange about
\* a hotel room, went down the general language-model path and was answered
C19_Witness ==
  /\ variant = "agents.py"
  /\ sup_pc = "responded"
  /\ http_status = 200
  /\ Len(messages) = 2
  /\ messages[1] = Msg("assistant", T_hotel_room)
  /\ LastContent = T_joke
  /\ remote_calls = <<"llm">>

\* a heading line directly followed by a line of `under`
HasSection(body, headings, under) ==
  \E i \in 1..(Len(body) - 1) : body[i] \in headings /\ body[i + 1] \in under

FlightsHeadings == {"**Flights**", "## Flights"}

HotelsHeadings == {"**Hotels**", "## Hotels", "**Lodging**", "## Lodging"}

NoFlightsLines == {"No flights found."}

NoHotelsLines ==
  {"No hotels found.", "No lodging found.", "No results found."}

\* C7: a reply put together by the response assembler from zero flights and
\* zero hotels holds a Flights section and a Hotels section, each with an
\* explicit no-results line.
C7_AssemblerComplete ==
  (/\ sup_pc = "responded"
   /\ http_status = 200
   /\ Count(remote_calls, "summary_chain") = 1
   /\ sup_response.content = formatted(0))
  => /\ HasSection(http_body, FlightsHeadings, NoFlightsLines)
     /\ HasSection(http_body, HotelsHeadings, NoHotelsLines)

\* C8: for the single user message "Find me a flight from Boston to San Diego
\* next week", an answered pass invokes the flight agent exactly once, never
\* the lodging agent, and its final reply holds a Flights section.
C8_EndToEnd ==
  (/\ sup_pc = "responded"
   /\ http_status = 200
   /\ messages = <<Msg("user", T_flight_scenario)>>)
  => /\ Count(remote_calls, "flight_agent") = 1
     /\ Count(remote_calls, "lodging_agent") = 0
     /\ \E i \in 1..Len(http_body) : http_body[i] \in FlightsHeadings

\* C9: a pass in which a remote call failed still completes and answers with
\* a reply: the failure never aborts the pass.  (A pass ended by the
\* supervisor's own IndexError on the message text is no remote failure and is
\* left out.)
C9_RemoteFailureDegrades ==
  (sup_pc = "responded" /\ error # "IndexError") => http_status = 200

(***************************************************************************)
(* services.py: get_or_create_chat                                         *)
(***************************************************************************)
\* message[:n]
Truncate(text, n) == IF Len(text) <= n THEN text ELSE SubSeq(text, 1, n)

\* the width of the title fallback, message[:60]
TitleWidth == 60

\* a message longer than the title fallback
T_long == T_flight_scenario \o <<" ">> \o T_flight_scenario

GeneratedTitle == <<"(", "t", "i", "t", "l", "e", ")">>

StoredTitle == <<"(", "s", "t", "o", "r", "e", "d", ")">>

\* How title_agent.ainvoke may end: a dict with 'content', a dict without
\* (what a create_react_agent graph returns), an object without .get, or an
\* exception.
TitleOutcomes == {"dict_content", "dict_nocontent", "object", "raise"}

\* The chat returned (kind "none" for None) and whether the error was
\* logged; `current` tells whether the session names a stored chat.
get_or_create_chat(message, current, title_outcome, commit_ok) ==
  LET none == [chat |-> [kind |-> "none", title |-> <<>>], logged |-> TRUE]
  IN  IF current
        THEN [chat |-> [kind |-> "stored", title |-> StoredTitle],
              logged |-> FALSE]
      ELSE IF title_outcome = "raise" THEN none          \* ainvoke raises
      ELSE IF title_outcome = "object" THEN none         \* .get raises
      ELSE LET chat_title ==
                 IF title_outcome = "dict_content" THEN GeneratedTitle
                 ELSE Truncate(message, TitleWidth)
           IN  IF ~commit_ok THEN none                   \* commit raises
               ELSE [chat |-> [kind |-> "created", title |-> chat_title],
                     logged |-> FALSE]

TitleTexts == ChatTexts \cup KeywordTexts \cup {T_long}

InitTitle ==
  /\ svc_pc = "call"
  /\ svc_message \in TitleTexts
  /\ svc_current \in BOOLEAN
  /\ svc_title = "none"
  /\ svc_chat = [kind |-> "none", title |-> <<>>]
  /\ svc_logged = FALSE
  /\ messages = <<>>
  /\ error = "none"
  /\ NormIdle
  /\ RouteIdle
  /\ CityIdle
  /\ ChatIdle
  /\ StoreIdle

GetOrCreateChatCall ==
  /\ svc_pc = "call"
  /\ \E title_outcome \in TitleOutcomes, commit_ok \in BOOLEAN :
       LET result == get_or_create_chat(svc_message, svc_current,
                                        title_outcome, commit_ok)
       IN  /\ svc_title' = IF svc_current THEN "none" ELSE title_outcome
           /\ svc_chat' = result.chat
           /\ svc_logged' = result.logged
  /\ svc_pc' = "done"
  /\ UNCHANGED <<svc_message, svc_current, messages, error, normVars,
                 routeVars, cityVars, chatVars, storeVars>>

NextTitle == GetOrCreateChatCall

SpecTitle == InitTitle /\ [][NextTitle]_vars

\* C13: when title generation fails while a new chat is being created, the
\* failure is logged and the chat is still created, titled with the
\* truncation of the raw user message.
C13_TitleFallback ==
  (svc_pc = "done" /\ ~svc_current /\ svc_title = "raise")
  => /\ svc_logged
     /\ svc_chat.kind = "created"
     /\ svc_chat.title = Truncate(svc_message, TitleWidth)

(***************************************************************************)
(* app.py: the store endpoints.                                            *)
(*                                                                         *)
(* Every client holds a signed cookie session; every request works in its  *)
(* own db.session, whose uncommitted rows are discarded when the request   *)
(* ends.  /chat awaits the supervisor between adding the user's message   *)
(* and the commit, so requests of other clients run in between; the other *)
(* endpoints are one step each.  A commit may raise.  A client sends one  *)
(* request at a time.                                                      *)
(***************************************************************************)
Clients == {"c1", "c2"}

MaxUsers == 2

MaxChats == 2

MaxStored == 4

StoreTexts == {T_hi_there}

Row(chat_id, role, content) ==
  [chat_id |-> chat_id, role |-> role, content |-> content]

ChatIdsOf(chats) == {chat.id : chat \in chats}

\* chat.messages
MessagesOf(rows, chat_id) == SelectSeq(rows, LAMBDA m : m.chat_id = chat_id)

\* a delete that forgets the filter on the chat
DeleteEveryMessage(rows, chat_id) == <<>>

\* Message.query.filter_by(chat_id=...).delete(), and the delete-orphan
\* cascade of db.session.delete(chat)
DeleteMessagesOf(rows, chat_id) ==
  SelectSeq(rows, LAMBDA m : m.chat_id # chat_id)

\* a commit that stores the first added row only
commit_first_row(rows, added) == Append(rows, added[1])

\* db.session.commit() of added rows
commit(rows, added) == rows \o added

\* a request end that keeps what was added
session_remove_keeps_added(rows, added) == rows \o added

\* the end of a request that did not commit: what it added is discarded
session_remove(rows, added) == rows

Op(client, op, outcome, status, chat) ==
  [client |-> client, op |-> op, outcome |-> outcome, status |-> status,
   chat |-> chat]

InitStore ==
  /\ db_users = {}
  /\ db_chats = {}
  /\ db_messages = <<>>
  /\ chat_sessions = <<>>
  /\ session = [c \in Clients |-> NoSession]
  /\ req_pc = [c \in Clients |-> "idle"]
  /\ pending = [c \in Clients |-> <<>>]
  /\ issued_users = 0
  /\ issued_chats = 0
  /\ before = [c \in Clients |-> NoBefore]
  /\ last_op = NoOp
  /\ messages = <<>>
  /\ error = "none"
  /\ NormIdle
  /\ RouteIdle
  /\ CityIdle
  /\ ChatIdle
  /\ TitleIdle

\* /chat, lines 377-426: get or create the user and the chat, add the user's
\* message; `fail` names the commit that raises, if one does
ChatBegin(c) ==
  /\ req_pc[c] = "idle"
  /\ Len(db_messages) + 2 * Cardinality({d \in Clients : req_pc[d] = "awaiting"})
       + 2 <= MaxStored
  /\ \E message \in StoreTexts, fail \in {"none", "user_commit", "chat_commit"} :
       LET new_user == session[c].user_id = 0
           user_id  == IF new_user THEN issued_users + 1 ELSE session[c].user_id
           add_user == user_id \notin db_users
           reached  == fail # "user_commit"     \* the chat part is reached
           new_chat == reached /\ session[c].current_chat_id = 0
           current_chat_id ==
             IF new_chat THEN issued_chats + 1 ELSE session[c].current_chat_id
           add_chat == reached /\ current_chat_id \notin ChatIdsOf(db_chats)
       IN  /\ new_user => issued_users < MaxUsers
           /\ new_chat => issued_chats < MaxChats
           /\ fail = "user_commit" => add_user
           /\ fail = "chat_commit" => add_chat
           /\ issued_users' = IF new_user THEN issued_users + 1 ELSE issued_users
           /\ issued_chats' = IF new_chat THEN issued_chats + 1 ELSE issued_chats
           /\ session' = [session EXCEPT ![c] =
                 [user_id |-> user_id, current_chat_id |-> current_chat_id]]
           /\ db_users' = IF reached THEN db_users \cup {user_id} ELSE db_users
           /\ db_chats' = IF fail = "none" /\ add_chat
                            THEN db_chats \cup
                                   {[id |-> current_chat_id, user_id |-> user_id]}
                            ELSE db_chats
           /\ before' = [before EXCEPT ![c] =
                 [user |-> ~add_user,
                  chat |-> current_chat_id \in ChatIdsOf(db_chats),
                  msgs |-> MessagesOf(db_messages, current_chat_id)]]
           /\ IF fail = "none"
                THEN /\ pending' = [pending EXCEPT ![c] =
                           <<Row(current_chat_id, "user", message)>>]
                     /\ req_pc' = [req_pc EXCEPT ![c] = "awaiting"]
                     /\ last_op' =
                           Op(c, "chat", "awaiting", 0, current_chat_id)
                ELSE /\ UNCHANGED <<pending, req_pc>>
                     /\ last_op' =
                           Op(c, "chat", fail, 500, current_chat_id)
  /\ UNCHANGED <<db_messages, chat_sessions, messages, error, normVars,
                 routeVars, cityVars, chatVars, titleVars>>

\* /chat, lines 427-455: the supervisor answers or raises, the reply is added
\* and the request commits, or the commit raises
ChatEnd(c) ==
  /\ req_pc[c] = "awaiting"
  /\ \E outcome \in {"ok", "supervisor", "final_commit"} :
       LET chat_id == pending[c][1].chat_id
           assistant_message == Row(chat_id, "assistant", AgentText)
           added == IF outcome = "supervisor" THEN pending[c]
                    ELSE Append(pending[c], assistant_message)
       IN  /\ db_messages' = IF outcome = "ok" THEN commit(db_messages, added)
                               ELSE session_remove(db_messages, added)
           /\ last_op' =
                 Op(c, "chat", outcome, IF outcome = "ok" THEN 200 ELSE 500,
                    chat_id)
  /\ pending' = [pending EXCEPT ![c] = <<>>]
  /\ req_pc' = [req_pc EXCEPT ![c] = "idle"]
  /\ UNCHANGED <<db_users, db_chats, chat_sessions, session, issued_users,
                 issued_chats, before, messages, error, normVars, routeVars,
                 cityVars, chatVars, titleVars>>

\* /clear, lines 457-465
ClearChat(c) ==
  /\ req_pc[c] = "idle"
  /\ LET current_chat_id == session[c].current_chat_id
         found == current_chat_id \in ChatIdsOf(db_chats)
     IN  /\ \E commit_ok \in IF found THEN BOOLEAN ELSE {TRUE} :
              /\ db_messages' =
                   IF found /\ commit_ok
                     THEN DeleteMessagesOf(db_messages, current_chat_id)
                     ELSE db_messages
              /\ last_op' =
                    Op(c, "clear_chat", IF commit_ok THEN "ok" ELSE "commit",
                       IF commit_ok THEN 200 ELSE 500, current_chat_id)
  /\ before' = [before EXCEPT ![c] = NoBefore]
  /\ UNCHANGED <<db_users, db_chats, chat_sessions, session, req_pc, pending,
                 issued_users, issued_chats, messages, error, normVars,
                 routeVars, cityVars, chatVars, titleVars>>

\* POST /chats, lines 504-522
CreateNewChat(c) ==
  /\ req_pc[c] = "idle"
  /\ \E fail \in {"none", "user_commit", "chat_commit"} :
       LET new_user == session[c].user_id = 0
           user_id  == IF new_user THEN issued_users + 1 ELSE session[c].user_id
           reached  == fail # "user_commit"
           chat_id  == IF reached THEN issued_chats + 1 ELSE 0
       IN  /\ new_user => issued_users < MaxUsers
           /\ reached => issued_chats < MaxChats
           /\ fail = "user_commit" => new_user
           \* an id that is dropped with the failed request is not counted
           /\ issued_users' = IF new_user /\ reached THEN issued_users + 1
                                ELSE issued_users
           /\ issued_chats' = IF fail = "none" THEN issued_chats + 1
                                ELSE issued_chats
           /\ db_users' = IF new_user /\ reached
                            THEN db_users \cup {user_id} ELSE db_users
           /\ db_chats' = IF fail = "none"
                            THEN db_chats \cup {[id |-> chat_id, user_id |-> user_id]}
                            ELSE db_chats
           /\ session' = [session EXCEPT ![c] =
                 [user_id |-> IF reached THEN user_id ELSE session[c].user_id,
                  current_chat_id |-> IF fail = "none" THEN chat_id
                                      ELSE session[c].current_chat_id]]
           /\ last_op' =
                 Op(c, "create_new_chat", IF fail = "none" THEN "ok" ELSE fail,
                    IF fail = "none" THEN 200 ELSE 500,
                    IF fail = "none" THEN chat_id ELSE 0)
  /\ before' = [before EXCEPT ![c] = NoBefore]
  /\ UNCHANGED <<db_messages, chat_sessions, req_pc, pending, messages, error,
                 normVars, routeVars, cityVars, chatVars, titleVars>>

\* a get_chat without the test on the owner of the chat
GetChatWithoutOwnerTest(c, chat_id) ==
  /\ req_pc[c] = "idle"
  /\ LET found == chat_id \in ChatIdsOf(db_chats)
         status == IF ~found THEN 404 ELSE 200
     IN  /\ session' = IF status = 200
                         THEN [session EXCEPT ![c].current_chat_id = chat_id]
                         ELSE session
         /\ last_op' =
               Op(c, "get_chat", IF status = 200 THEN "ok" ELSE "refused", status,
                  IF status = 200 THEN chat_id ELSE 0)
  /\ before' = [before EXCEPT ![c] = NoBefore]
  /\ UNCHANGED <<db_users, db_chats, db_messages, chat_sessions, req_pc,
                 pending, issued_users, issued_chats, messages, error,
                 normVars, routeVars, cityVars, chatVars, titleVars>>

\* GET /chats/<chat_id>, lines 524-544
GetChat(c, chat_id) ==
  /\ req_pc[c] = "idle"
  /\ LET found == chat_id \in ChatIdsOf(db_chats)
         owned == [id |-> chat_id, user_id |-> session[c].user_id] \in db_chats
         status == IF ~found THEN 404 ELSE IF ~owned THEN 403 ELSE 200
     IN  /\ session' = IF status = 200
                         THEN [session EXCEPT ![c].current_chat_id = chat_id]
                         ELSE session
         /\ last_op' =
               Op(c, "get_chat", IF status = 200 THEN "ok" ELSE "refused", status,
                  IF status = 200 THEN chat_id ELSE 0)
  /\ before' = [before EXCEPT ![c] = NoBefore]
  /\ UNCHANGED <<db_users, db_chats, db_messages, chat_sessions, req_pc,
                 pending, issued_users, issued_chats, messages, error,
                 normVars, routeVars, cityVars, chatVars, titleVars>>

\* DELETE /chats/<chat_id>, lines 546-564
DeleteChat(c, chat_id) ==
  /\ req_pc[c] = "idle"
  /\ LET found == chat_id \in ChatIdsOf(db_chats)
         chat  == [id |-> chat_id, user_id |-> session[c].user_id]
         owned == chat \in db_chats
     IN  \E commit_ok \in IF owned THEN BOOLEAN ELSE {TRUE} :
           LET status == IF ~found THEN 404 ELSE IF ~owned THEN 403
                         ELSE IF ~commit_ok THEN 500 ELSE 200
           IN  /\ db_chats' = IF status = 200 THEN db_chats \ {chat}
                                ELSE db_chats
               /\ db_messages' = IF status = 200
                                   THEN DeleteMessagesOf(db_messages, chat_id)
                                   ELSE db_messages
               /\ session' =
                    IF status = 200 /\ session[c].current_chat_id = chat_id
                      THEN [session EXCEPT ![c].current_chat_id = 0]
                      ELSE session
               /\ last_op' =
                     Op(c, "delete_chat",
                        IF status = 200 THEN "ok"
                        ELSE IF status = 500 THEN "commit" ELSE "refused",
                        status, IF status = 200 THEN chat_id ELSE 0)
  /\ before' = [before EXCEPT ![c] = NoBefore]
  /\ UNCHANGED <<db_users, chat_sessions, req_pc, pending, issued_users,
                 issued_chats, messages, error, normVars, routeVars, cityVars,
                 chatVars, titleVars>>

NextStore ==
  \/ \E c \in Clients : ChatBegin(c)
  \/ \E c \in Clients : ChatEnd(c)
  \/ \E c \in Clients : ClearChat(c)
  \/ \E c \in Clients : CreateNewChat(c)
  \/ \E c \in Clients, chat_id \in 1..MaxChats : GetChat(c, chat_id)
  \/ \E c \in Clients, chat_id \in 1..MaxChats : DeleteChat(c, chat_id)

SpecStore == InitStore /\ [][NextStore]_vars

(***************************************************************************)
(* Claims about the store endpoints.                                       *)
(***************************************************************************)
ChatFailures == {"user_commit", "chat_commit", "supervisor", "final_commit"}

\* the last request step was a /chat request ending in a failure
FailedChat == last_op.op = "chat" /\ last_op.outcome \in ChatFailures

\* C14, as amended: a /chat request in which the supervisor or a commit
\* raises is answered with an error status, and the store holds no message
\* of that request: the messages of its chat are those it met.
C14_FailureAtomic ==
  FailedChat =>
    /\ last_op.status = 500
    /\ MessagesOf(db_messages, last_op.chat) = before[last_op.client].msgs

\* C14, as stated: a failed /chat request is answered with an error and
\* leaves no state of its own in the store, neither a message nor a User or
\* Chat row.
C14_Original ==
  FailedChat =>
    /\ last_op.status = 500
    /\ MessagesOf(db_messages, last_op.chat) = before[last_op.client].msgs
    /\ (session[last_op.client].user_id \in db_users)
         <=> before[last_op.client].user
    /\ (last_op.chat \in ChatIdsOf(db_chats)) <=> before[last_op.client].chat

\* C14's case: the supervisor raised in a request to a chat that already
\* had messages, after the user's message had been added
C14_Witness ==
  /\ FailedChat
  /\ last_op.outcome = "supervisor"
  /\ last_op.status = 500
  /\ before[last_op.client].msgs # <<>>
  /\ req_pc[last_op.client] = "idle"

\* C15: every Chat row names a stored User, every Message row names a stored
\* Chat, and a deleted chat is gone together with all of its messages.
C15_ReferentialIntegrity ==
  /\ \A chat \in db_chats : chat.user_id \in db_users
  /\ \A i \in 1..Len(db_messages) :
       db_messages[i].chat_id \in ChatIdsOf(db_chats)
  /\ (last_op.op = "delete_chat" /\ last_op.status = 200)
       => /\ last_op.chat \notin ChatIdsOf(db_chats)
          /\ MessagesOf(db_messages, last_op.chat) = <<>>

\* C20: a step of a request adds, removes or changes messages of the chat
\* the request belongs to only, however the requests of the clients
\* interleave, and the module-level dict chat_sessions is never written.
C20_SessionsIndependent ==
  /\ [][\A chat_id \in 1..MaxChats :
          MessagesOf(db_messages', chat_id) # MessagesOf(db_messages, chat_id)
            => last_op'.chat = chat_id]_vars
  /\ [](chat_sessions = <<>>)

\* C20's case: while one client's /chat request was awaiting its supervisor,
\* another client's /chat request committed its two messages; the first
\* chat still has none
C20_Witness ==
  \E c \in Clients :
    /\ req_pc[c] = "awaiting"
    /\ last_op.client \in Clients \ {c}
    /\ last_op.op = "chat"
    /\ last_op.outcome = "ok"
    /\ last_op.chat # pending[c][1].chat_id
    /\ Len(MessagesOf(db_messages, last_op.chat)) = 2
    /\ MessagesOf(db_messages, pending[c][1].chat_id) = <<>>

\* C22: with one writer per chat, after any /chat and /clear requests, failed
\* or not, the stored messages of every chat are (user, assistant) pairs: an
\* even number of them, starting with a user message and alternating.
C22_StoredPairs ==
  \A chat_id \in 1..MaxChats :
    LET transcript == MessagesOf(db_messages, chat_id)
    IN  /\ Len(transcript) % 2 = 0
        /\ \A i \in 1..Len(transcript) :
             transcript[i].role = IF i % 2 = 1 THEN "user" ELSE "assistant"

\* C22's case: a chat that holds one stored exchange met a /chat request
\* whose final commit raised, and still holds that one exchange
C22_Witness ==
  /\ last_op.op = "chat"
  /\ last_op.outcome = "final_commit"
  /\ Len(MessagesOf(db_messages, last_op.chat)) = 2
  /\ MessagesOf(db_messages, last_op.chat)[1].role = "user"
  /\ MessagesOf(db_messages, last_op.chat)[2].role = "assistant"

\* the chat row with this id that the client's session user would own
OwnChat(c, chat_id) == [id |-> chat_id, user_id |-> session[c].user_id]

\* C23: a GET or DELETE on /chats/<chat_id> by a session whose user does not
\* own the chat answers 403, or 404 when there is no such chat, and changes
\* neither the store nor any session's current chat; so the current chat of
\* a session, when it is in the store, belongs to the session's user.
C23_OwnerOnly ==
  /\ [](\A c \in Clients :
          session[c].current_chat_id \in ChatIdsOf(db_chats)
            => OwnChat(c, session[c].current_chat_id) \in db_chats)
  /\ [][last_op'.op \in {"get_chat", "delete_chat"} =>
          \A chat_id \in 1..MaxChats :
            (/\ OwnChat(last_op'.client, chat_id) \notin db_chats
             /\ \/ GetChat(last_op'.client, chat_id)
                \/ DeleteChat(last_op'.client, chat_id))
            => /\ last_op'.status =
                    IF chat_id \in ChatIdsOf(db_chats) THEN 403 ELSE 404
               /\ UNCHANGED <<db_users, db_chats, db_messages, session>>]_vars

\* C23's case: a DELETE by a client on a chat of another user that holds
\* messages was answered 403, and the chat and its messages are still there
C23_Witness ==
  /\ last_op.op = "delete_chat"
  /\ last_op.status = 403
  /\ \E chat \in db_chats :
       /\ chat.user_id # session[last_op.client].user_id
       /\ Len(MessagesOf(db_messages, chat.id)) = 2
       /\ \A other \in db_chats : other = chat

====
